---- MODULE Spec2Model ----
(***************************************************************************)
(* Model of the todo list application of src/src/main.rs: a SQLite table   *)
(* `todos`, the in-memory snapshot `TodoApp::todos`, the form buffers and   *)
(* the filter, with one action per method of `TodoApp`.                     *)
(*                                                                         *)
(* Strings are sequences of characters, so that `str::trim` is computed,    *)
(* not assumed; a character is a one-character string, or the name of its   *)
(* code point ("U+3000") where a string cannot hold it.  Option<T> is a     *)
(* sequence of length 0 (None) or 1 (Some(x)).  The file todos.db outlives  *)
(* the process: the program starts on no file or on the file of an earlier  *)
(* run.                                                                     *)
(***************************************************************************)
EXTENDS Integers, Sequences, FiniteSets, TLC

\* Largest number of rows the table is allowed to grow to.
MaxRows == 2

None == <<>>
Some(x) == <<x>>

\* The (title, description) pairs a caller (or the user, through the two text
\* fields of a form) can supply: an empty title; a title of white space only
\* (a space and U+3000); a title with white space inside, between a form feed
\* and U+00A0, with a description of white space only; and a title that
\* needs no trimming with a description that has white space inside and
\* around it.
Inputs ==
    { [title |-> <<>>,
       description |-> <<"b">>],
      [title |-> <<" ", "U+3000">>,
       description |-> <<>>],
      [title |-> <<"\f", "a", " ", "b", " ">>,
       description |-> <<"\t", "\r">>],
      [title |-> <<"b">>,
       description |-> <<" ", "a", " ", "b", "\n">>] }

\* The ids a caller can pass: 0 is never assigned by AUTOINCREMENT.
Ids == 0..MaxRows

Filter == {"All", "Active", "Completed", "Deleted"}

VARIABLES
    conn,              \* the database behind `conn`: table todos + sqlite_sequence
    todos,             \* TodoApp::todos, the snapshot
    new_title,         \* TodoApp::new_title
    new_description,   \* TodoApp::new_description
    edit_todo_id,      \* TodoApp::edit_todo_id : Option<i32>
    edit_title,        \* TodoApp::edit_title
    edit_description,  \* TodoApp::edit_description
    filter,            \* TodoApp::filter
    panicked           \* the process has panicked on a failed .expect() and is gone

vars == <<conn, todos, new_title, new_description,
          edit_todo_id, edit_title, edit_description, filter, panicked>>

----------------------------------------------------------------------------
(* str::trim / str::is_empty *)

\* The characters with the Unicode property White_Space.  U+000B, U+0085,
\* U+00A0 and U+1680 are written as themselves; a character that a string of
\* this language cannot hold is written by the name of its code point.
White_Space ==
    { "\t", "\n", "", "\f", "\r", " ",          \* U+0009..U+000D, U+0020
      "", " ", " ",                          \* U+0085, U+00A0, U+1680
      "U+2000", "U+2001", "U+2002", "U+2003", "U+2004", "U+2005",
      "U+2006", "U+2007", "U+2008", "U+2009", "U+200A",
      "U+2028", "U+2029", "U+202F", "U+205F", "U+3000" }

\* char::is_whitespace
is_whitespace(c) == c \in White_Space

RECURSIVE trim_start(_)
trim_start(s) ==
    IF s = <<>> THEN s
    ELSE IF is_whitespace(Head(s)) THEN trim_start(Tail(s)) ELSE s

RECURSIVE trim_end(_)
trim_end(s) ==
    IF s = <<>> THEN s
    ELSE IF is_whitespace(s[Len(s)]) THEN trim_end(SubSeq(s, 1, Len(s) - 1)) ELSE s

trim(s) == trim_end(trim_start(s))

is_empty(s) == Len(s) = 0

----------------------------------------------------------------------------
(* The SQL statements the program executes, on a database value            *)
(*   [todos |-> rows in rowid order, sqlite_sequence |-> last id handed out] *)

TodoItem(id, title, description, done, deleted) ==
    [id |-> id, title |-> title, description |-> description,
     done |-> done, deleted |-> deleted]

\* Connection::open("todos.db") and CREATE TABLE IF NOT EXISTS todos (...):
\* a file that does not exist is created with an empty table; the table of a
\* file that exists is kept, rows and AUTOINCREMENT counter.
create_table(file) ==
    IF file = None
        THEN [todos |-> <<>>, sqlite_sequence |-> 0]
        ELSE file[1]

RECURSIVE max_id(_)
max_id(rows) ==
    IF rows = <<>> THEN 0
    ELSE LET m == max_id(Tail(rows)) IN IF Head(rows).id > m THEN Head(rows).id ELSE m

\* the key taken to be the largest id in use, not one more: the new row takes
\* the id of the last one
autoincrement_reuses(db) ==
    IF max_id(db.todos) > db.sqlite_sequence
        THEN max_id(db.todos) ELSE db.sqlite_sequence

\* id INTEGER PRIMARY KEY AUTOINCREMENT: one more than the largest id ever used
autoincrement(db) ==
    (IF max_id(db.todos) > db.sqlite_sequence
        THEN max_id(db.todos) ELSE db.sqlite_sequence) + 1

\* INSERT INTO todos (title, description, done, deleted) VALUES (?1, ?2, 0, 0)
sql_insert(db, title, description) ==
    LET id == autoincrement(db) IN
    [todos |-> Append(db.todos, TodoItem(id, title, description, FALSE, FALSE)),
     sqlite_sequence |-> id]

\* UPDATE todos SET done = ?1 WHERE id = ?2
sql_set_done(db, done, id) ==
    [db EXCEPT !.todos =
        [i \in DOMAIN db.todos |->
            IF db.todos[i].id = id
                THEN [db.todos[i] EXCEPT !.done = done]
                ELSE db.todos[i]]]

\* the UPDATE of the deleted flag also clearing done: "SET deleted = ?, done = 0"
sql_set_deleted_clears_done(db, deleted, id) ==
    [db EXCEPT !.todos =
        [i \in DOMAIN db.todos |->
            IF db.todos[i].id = id
                THEN [db.todos[i] EXCEPT !.deleted = deleted, !.done = FALSE]
                ELSE db.todos[i]]]

\* UPDATE todos SET deleted = ?v WHERE id = ?1   (v is the literal 1 or 0)
sql_set_deleted(db, deleted, id) ==
    [db EXCEPT !.todos =
        [i \in DOMAIN db.todos |->
            IF db.todos[i].id = id
                THEN [db.todos[i] EXCEPT !.deleted = deleted]
                ELSE db.todos[i]]]

\* the UPDATE of the texts also restoring the row: "SET title = ?, description = ?,
\* deleted = 0"
sql_set_text_restores(db, title, description, id) ==
    [db EXCEPT !.todos =
        [i \in DOMAIN db.todos |->
            IF db.todos[i].id = id
                THEN [db.todos[i] EXCEPT !.title = title, !.description = description,
                                         !.deleted = FALSE]
                ELSE db.todos[i]]]

\* UPDATE todos SET title = ?1, description = ?2 WHERE id = ?3
sql_set_text(db, title, description, id) ==
    [db EXCEPT !.todos =
        [i \in DOMAIN db.todos |->
            IF db.todos[i].id = id
                THEN [db.todos[i] EXCEPT !.title = title, !.description = description]
                ELSE db.todos[i]]]

\* SELECT id, title, description, done, deleted FROM todos
sql_select(db) == db.todos

----------------------------------------------------------------------------
(* The methods of TodoApp, as functions from the value of `self` before    *)
(* the call to its value after it.                                          *)

Self ==
    [conn |-> conn, todos |-> todos,
     new_title |-> new_title, new_description |-> new_description,
     edit_todo_id |-> edit_todo_id,
     edit_title |-> edit_title, edit_description |-> edit_description,
     filter |-> filter]

load_todos(self) == [self EXCEPT !.todos = sql_select(self.conn)]

\* The struct literal of TodoApp::new, before load_todos is called on it
app(file) ==
    [conn |-> create_table(file), todos |-> <<>>,
     new_title |-> <<>>, new_description |-> <<>>,
     edit_todo_id |-> None,
     edit_title |-> <<>>, edit_description |-> <<>>,
     filter |-> "All"]

new(file) == load_todos(app(file))

\* add_todo storing the title as typed instead of the trimmed title
add_todo_untrimmed(self) ==
    LET title == trim(self.new_title) IN
    IF ~is_empty(title)
        THEN LET desc == trim(self.new_description)
                 desc_opt == IF is_empty(desc) THEN None ELSE Some(desc)
             IN load_todos(
                    [self EXCEPT !.conn = sql_insert(self.conn, self.new_title, desc_opt),
                                 !.new_title = <<>>,
                                 !.new_description = <<>>])
        ELSE self

add_todo(self) ==
    LET title == trim(self.new_title) IN
    IF ~is_empty(title)
        THEN LET desc == trim(self.new_description)
                 desc_opt == IF is_empty(desc) THEN None ELSE Some(desc)
             IN load_todos(
                    [self EXCEPT !.conn = sql_insert(self.conn, title, desc_opt),
                                 !.new_title = <<>>,
                                 !.new_description = <<>>])
        ELSE self

\* toggle_done without the reload: the snapshot is left as it was
toggle_done_no_reload(self, id, current) ==
    [self EXCEPT !.conn = sql_set_done(self.conn, ~current, id)]

\* toggle_done writing the caller's value back instead of its negation
toggle_done_unnegated(self, id, current) ==
    load_todos([self EXCEPT !.conn = sql_set_done(self.conn, current, id)])

\* toggle_done flipping the stored flag, "UPDATE todos SET done = NOT done WHERE
\* id = ?", whatever the caller believes the flag to be
toggle_done_atomic(self, id, current) ==
    load_todos(
        [self EXCEPT !.conn =
            [self.conn EXCEPT !.todos =
                [i \in DOMAIN self.conn.todos |->
                    IF self.conn.todos[i].id = id
                        THEN [self.conn.todos[i] EXCEPT !.done = ~self.conn.todos[i].done]
                        ELSE self.conn.todos[i]]]])

toggle_done(self, id, current) ==
    load_todos([self EXCEPT !.conn = sql_set_done(self.conn, ~current, id)])

\* delete_todo flipping the flag, "SET deleted = NOT deleted", instead of setting it
delete_todo_flip(self, id) ==
    load_todos(
        [self EXCEPT !.conn =
            [self.conn EXCEPT !.todos =
                [i \in DOMAIN self.conn.todos |->
                    IF self.conn.todos[i].id = id
                        THEN [self.conn.todos[i] EXCEPT !.deleted = ~self.conn.todos[i].deleted]
                        ELSE self.conn.todos[i]]]])

delete_todo(self, id) ==
    load_todos([self EXCEPT !.conn = sql_set_deleted(self.conn, TRUE, id)])

\* restore_todo without the WHERE clause: every row is restored
restore_todo_every_row(self, id) ==
    load_todos(
        [self EXCEPT !.conn =
            [self.conn EXCEPT !.todos =
                [i \in DOMAIN self.conn.todos |->
                    [self.conn.todos[i] EXCEPT !.deleted = FALSE]]]])

restore_todo(self, id) ==
    load_todos([self EXCEPT !.conn = sql_set_deleted(self.conn, FALSE, id)])

\* update_todo without the early return on an empty trimmed title
update_todo_unvalidated(self, id) ==
    LET t == trim(self.edit_title)
        d == trim(self.edit_description)
        d_opt == IF is_empty(d) THEN None ELSE Some(d)
    IN load_todos([self EXCEPT !.conn = sql_set_text(self.conn, t, d_opt, id)])

update_todo(self, id) ==
    LET t == trim(self.edit_title) IN
    IF is_empty(t)
        THEN self
        ELSE LET d == trim(self.edit_description)
                 d_opt == IF is_empty(d) THEN None ELSE Some(d)
             IN load_todos([self EXCEPT !.conn = sql_set_text(self.conn, t, d_opt, id)])

\* the match with All taken literally: every row, deleted or not
filter_match_all_rows(f, t) ==
    CASE f = "All"       -> TRUE
      [] f = "Active"    -> ~t.done /\ ~t.deleted
      [] f = "Completed" -> t.done /\ ~t.deleted
      [] f = "Deleted"   -> t.deleted

\* the match with Active forgetting the deleted flag
filter_match_active_deleted(f, t) ==
    CASE f = "All"       -> ~t.deleted
      [] f = "Active"    -> ~t.done
      [] f = "Completed" -> t.done /\ ~t.deleted
      [] f = "Deleted"   -> t.deleted

\* The predicate of the match in filtered_todos
filter_match(f, t) ==
    CASE f = "All"       -> ~t.deleted
      [] f = "Active"    -> ~t.done /\ ~t.deleted
      [] f = "Completed" -> t.done /\ ~t.deleted
      [] f = "Deleted"   -> t.deleted

filtered_todos(self) ==
    SelectSeq(self.todos, LAMBDA t : filter_match(self.filter, t))

----------------------------------------------------------------------------
(* The state machine: the methods called with arbitrary arguments.         *)

Becomes(self) ==
    /\ conn' = self.conn
    /\ todos' = self.todos
    /\ new_title' = self.new_title
    /\ new_description' = self.new_description
    /\ edit_todo_id' = self.edit_todo_id
    /\ edit_title' = self.edit_title
    /\ edit_description' = self.edit_description
    /\ filter' = self.filter
    /\ panicked' = panicked

\* The file todos.db the program is started on: Option of a database.  No
\* file on the first start; on a later start the file an earlier run of the
\* program left, here with a completed task and a soft-deleted task that has
\* a description.
Files ==
    { None,
      Some([todos |-> << TodoItem(1, <<"a", " ", "b">>, None, TRUE, FALSE),
                         TodoItem(2, <<"b">>, Some(<<"a", " ", "b">>), FALSE, TRUE) >>,
            sqlite_sequence |-> 2]) }

Init ==
    \E file \in Files :
        /\ conn = new(file).conn
        /\ todos = new(file).todos
        /\ new_title = new(file).new_title
        /\ new_description = new(file).new_description
        /\ edit_todo_id = new(file).edit_todo_id
        /\ edit_title = new(file).edit_title
        /\ edit_description = new(file).edit_description
        /\ filter = new(file).filter
        /\ panicked = FALSE

\* typing in the two text fields of the add form
type_new(self, title, desc) ==
    [self EXCEPT !.new_title = title, !.new_description = desc]

\* add(title, desc) of the store interface: add_todo reads its arguments from
\* the form fields new_title and new_description, so the call is the two
\* fields typed and then add_todo
add(self, title, desc) == add_todo(type_new(self, title, desc))

\* update(id, title, desc) of the store interface: update_todo reads its
\* arguments from the edit buffers edit_title and edit_description
update(self, id, title, desc) ==
    update_todo([self EXCEPT !.edit_title = title, !.edit_description = desc], id)

\* A frame in which the user has typed in the add form; a process that has
\* panicked draws no frame.
TypeNew(title, desc) ==
    /\ ~panicked
    /\ Becomes(type_new(Self, title, desc))

\* A frame in which Add is clicked: add_todo on the fields as they stand.  The
\* table is not let grow beyond MaxRows rows.
AddTodo ==
    /\ Len(add_todo(Self).conn.todos) <= MaxRows
    /\ Becomes(add_todo(Self))

ToggleDone(id, current) == Becomes(toggle_done(Self, id, current))

DeleteTodo(id) == Becomes(delete_todo(Self, id))

RestoreTodo(id) == Becomes(restore_todo(Self, id))

UpdateTodo(id, title, desc) == Becomes(update(Self, id, title, desc))

\* ui.selectable_value(&mut self.filter, f, ..)
SelectFilter(f) == Becomes([Self EXCEPT !.filter = f])

Next ==
    \/ \E in \in Inputs : TypeNew(in.title, in.description)
    \/ AddTodo
    \/ \E id \in Ids, current \in BOOLEAN : ToggleDone(id, current)
    \/ \E id \in Ids : DeleteTodo(id)
    \/ \E id \in Ids : RestoreTodo(id)
    \/ \E id \in Ids, in \in Inputs : UpdateTodo(id, in.title, in.description)
    \/ \E f \in Filter : SelectFilter(f)

Spec == Init /\ [][Next]_vars

----------------------------------------------------------------------------
(* The frame callback eframe::App::update: what each visible task offers   *)
(* and what a click on each widget does.  `todo` is an element of the list  *)
(* filtered_todos() returned at the start of the frame.                     *)

\* Option<String>::unwrap_or_default
unwrap_or_default(opt) == IF opt = None THEN <<>> ELSE opt[1]

\* if Some(todo.id) == self.edit_todo_id : the text fields, Save and Cancel
is_edit_target(self, todo) == Some(todo.id) = self.edit_todo_id

\* the checkbox live for every task, deleted or not
checkbox_enabled_always(todo) == TRUE

\* if !todo.deleted : the checkbox is live
checkbox_enabled(todo) == ~todo.deleted

\* the edit and delete buttons shown for the task being edited too
shows_edit_delete_on_target(self, todo) == ~todo.deleted

\* else if !todo.deleted : the edit and the delete buttons
shows_edit_delete(self, todo) == ~is_edit_target(self, todo) /\ ~todo.deleted

\* else : the restore button
shows_restore(self, todo) == ~is_edit_target(self, todo) /\ todo.deleted

\* the click passing `done`, the local the checkbox widget has just flipped,
\* instead of todo.done
click_checkbox_flipped_local(self, todo) == toggle_done(self, todo.id, ~todo.done)

click_checkbox(self, todo) == toggle_done(self, todo.id, todo.done)

\* typing in the two text fields of the task being edited
type_edit(self, title, desc) ==
    [self EXCEPT !.edit_title = title, !.edit_description = desc]

\* Save leaving edit mode only when update_todo accepted the title
click_save_stays_on_reject(self, todo) ==
    IF is_empty(trim(self.edit_title))
        THEN self
        ELSE [update_todo(self, todo.id) EXCEPT !.edit_todo_id = None]

click_save(self, todo) ==
    [update_todo(self, todo.id) EXCEPT !.edit_todo_id = None]

\* Cancel writing the buffers like Save
click_cancel_saves(self, todo) ==
    [update_todo(self, todo.id) EXCEPT !.edit_todo_id = None]

click_cancel(self, todo) == [self EXCEPT !.edit_todo_id = None]

\* the edit button switching the target without seeding the buffers
click_edit_keeps_buffers(self, todo) ==
    [self EXCEPT !.edit_todo_id = Some(todo.id)]

click_edit(self, todo) ==
    [self EXCEPT !.edit_todo_id = Some(todo.id),
                 !.edit_title = todo.title,
                 !.edit_description = unwrap_or_default(todo.description)]

click_delete(self, todo) == delete_todo(self, todo.id)

click_restore(self, todo) == restore_todo(self, todo.id)

\* The user acts on one widget per frame.
ClickCheckbox ==
    \E i \in DOMAIN filtered_todos(Self) :
        LET todo == filtered_todos(Self)[i] IN
        /\ checkbox_enabled(todo)
        /\ Becomes(click_checkbox(Self, todo))

TypeEdit(title, desc) ==
    /\ \E i \in DOMAIN filtered_todos(Self) :
            is_edit_target(Self, filtered_todos(Self)[i])
    /\ Becomes(type_edit(Self, title, desc))

ClickSave ==
    \E i \in DOMAIN filtered_todos(Self) :
        LET todo == filtered_todos(Self)[i] IN
        /\ is_edit_target(Self, todo)
        /\ Becomes(click_save(Self, todo))

ClickCancel ==
    \E i \in DOMAIN filtered_todos(Self) :
        LET todo == filtered_todos(Self)[i] IN
        /\ is_edit_target(Self, todo)
        /\ Becomes(click_cancel(Self, todo))

ClickEdit ==
    \E i \in DOMAIN filtered_todos(Self) :
        LET todo == filtered_todos(Self)[i] IN
        /\ shows_edit_delete(Self, todo)
        /\ Becomes(click_edit(Self, todo))

ClickDelete ==
    \E i \in DOMAIN filtered_todos(Self) :
        LET todo == filtered_todos(Self)[i] IN
        /\ shows_edit_delete(Self, todo)
        /\ Becomes(click_delete(Self, todo))

ClickRestore ==
    \E i \in DOMAIN filtered_todos(Self) :
        LET todo == filtered_todos(Self)[i] IN
        /\ shows_restore(Self, todo)
        /\ Becomes(click_restore(Self, todo))

UINext ==
    \/ \E in \in Inputs : TypeNew(in.title, in.description)
    \/ AddTodo
    \/ \E f \in Filter : SelectFilter(f)
    \/ ClickCheckbox
    \/ \E in \in Inputs : TypeEdit(in.title, in.description)
    \/ ClickSave
    \/ ClickCancel
    \/ ClickEdit
    \/ ClickDelete
    \/ ClickRestore

UISpec == Init /\ [][UINext]_vars

----------------------------------------------------------------------------
(* Storage failures.  Every rusqlite call is followed by .expect(..) (or    *)
(* .unwrap() on the rows), which panics on Err.  A method that executes a   *)
(* statement meets one of three outcomes: every call succeeds, the          *)
(* statement fails (nothing is written), or the statement succeeds and the  *)
(* query of load_todos fails (the snapshot is not replaced).                *)

IO == {"Ok", "ExecuteErr", "LoadErr"}

\* the error dropped instead of unwrapped: the method goes on
expect_ignored(self, result) == [app |-> self, panicked |-> FALSE]

\* Result::expect : the value of self when the call returned, and whether the
\* process panicked there
expect(self, result) == [app |-> self, panicked |-> result = "Err"]

\* A method of which `after` is the effect when every call succeeds, under
\* the outcome io
with_io(self, after, io) ==
    CASE io = "ExecuteErr" -> expect(self, "Err")
      [] io = "LoadErr"    -> expect([after EXCEPT !.todos = self.todos], "Err")
      [] io = "Ok"         -> expect(after, "Ok")

\* add_todo and update_todo execute a statement only for a non-empty title
add_todo_io(self, io) ==
    IF is_empty(trim(self.new_title))
        THEN expect(self, "Ok")
        ELSE with_io(self, add_todo(self), io)

update_todo_io(self, id, io) ==
    IF is_empty(trim(self.edit_title))
        THEN expect(self, "Ok")
        ELSE with_io(self, update_todo(self, id), io)

toggle_done_io(self, id, current, io) == with_io(self, toggle_done(self, id, current), io)

delete_todo_io(self, id, io) == with_io(self, delete_todo(self, id), io)

restore_todo_io(self, id, io) == with_io(self, restore_todo(self, id), io)

\* The process after a method returned or panicked
Outcome(r) ==
    /\ conn' = r.app.conn
    /\ todos' = r.app.todos
    /\ new_title' = r.app.new_title
    /\ new_description' = r.app.new_description
    /\ edit_todo_id' = r.app.edit_todo_id
    /\ edit_title' = r.app.edit_title
    /\ edit_description' = r.app.edit_description
    /\ filter' = r.app.filter
    /\ panicked' = r.panicked

\* TodoApp::new with a store that may fail to open, to create the table or to
\* answer the first query: the process panics before any frame is drawn
FailInit ==
    \E file \in Files, io \in IO :
        LET r == with_io(app(file), new(file), io) IN
        /\ conn = r.app.conn
        /\ todos = r.app.todos
        /\ new_title = r.app.new_title
        /\ new_description = r.app.new_description
        /\ edit_todo_id = r.app.edit_todo_id
        /\ edit_title = r.app.edit_title
        /\ edit_description = r.app.edit_description
        /\ filter = r.app.filter
        /\ panicked = r.panicked

AddTodoIO(io) ==
    /\ ~panicked
    /\ Len(add_todo(Self).conn.todos) <= MaxRows
    /\ Outcome(add_todo_io(Self, io))

ToggleDoneIO(id, current, io) ==
    /\ ~panicked
    /\ Outcome(toggle_done_io(Self, id, current, io))

DeleteTodoIO(id, io) ==
    /\ ~panicked
    /\ Outcome(delete_todo_io(Self, id, io))

RestoreTodoIO(id, io) ==
    /\ ~panicked
    /\ Outcome(restore_todo_io(Self, id, io))

UpdateTodoIO(id, title, desc, io) ==
    /\ ~panicked
    /\ Outcome(update_todo_io(
            [Self EXCEPT !.edit_title = title, !.edit_description = desc], id, io))

FailNext ==
    \/ \E in \in Inputs : TypeNew(in.title, in.description)
    \/ \E io \in IO : AddTodoIO(io)
    \/ \E id \in Ids, current \in BOOLEAN, io \in IO : ToggleDoneIO(id, current, io)
    \/ \E id \in Ids, io \in IO : DeleteTodoIO(id, io)
    \/ \E id \in Ids, io \in IO : RestoreTodoIO(id, io)
    \/ \E id \in Ids, in \in Inputs, io \in IO :
            UpdateTodoIO(id, in.title, in.description, io)

FailSpec == FailInit /\ [][FailNext]_vars

----------------------------------------------------------------------------
(* Vocabulary of the properties.                                            *)

Rows(ts) == {ts[i] : i \in DOMAIN ts}

IdsOf(ts) == {ts[i].id : i \in DOMAIN ts}

HasId(ts, id) == id \in IdsOf(ts)

\* The row of ts with the given id (ids are unique in the table)
RowOf(ts, id) == CHOOSE r \in Rows(ts) : r.id = id

\* Every row of `before` whose id is not `id` is a row of `after`, and the
\* two hold the same ids, in the same number of rows.
OthersUnchanged(before, after, id) ==
    /\ Len(after) = Len(before)
    /\ IdsOf(after) = IdsOf(before)
    /\ \A r \in Rows(before) : r.id # id => r \in Rows(after)

\* The snapshot of `self` is the table of `self`, row for row.
Reloaded(self) == self.todos = self.conn.todos

\* A text with no whitespace at either end
Trimmed(s) == s = <<>> \/ (~is_whitespace(s[1]) /\ ~is_whitespace(s[Len(s)]))

\* Option: absent when the text is empty
OrAbsent(s) == IF s = <<>> THEN None ELSE Some(s)

Visible(f) == filtered_todos([Self EXCEPT !.filter = f])

----------------------------------------------------------------------------
(* C1 *)

\* C1: in every reachable state, add(title, desc) with a title that is not
\* empty after trimming yields a reloaded snapshot with exactly one row that
\* was not there before; that row has the trimmed title, the trimmed
\* description (absent when empty), done = false and deleted = false, and a
\* fresh id; every row that was there before is still there, unchanged.
AddCreatesOneRow ==
    \A in \in Inputs :
        ~is_empty(trim(in.title)) =>
            LET after == add(Self, in.title, in.description)
                fresh == Rows(after.todos) \ Rows(todos)
            IN /\ Reloaded(after)
               /\ Len(after.todos) = Len(todos) + 1
               /\ Rows(todos) \subseteq Rows(after.todos)
               /\ Cardinality(fresh) = 1
               /\ \A r \in fresh :
                    /\ r.title = trim(in.title)
                    /\ Trimmed(r.title)
                    /\ r.description = OrAbsent(trim(in.description))
                    /\ r.description # None => Trimmed(r.description[1])
                    /\ r.done = FALSE
                    /\ r.deleted = FALSE
                    /\ r.id \notin IdsOf(todos)

\* The program was started without a file and one task has been added, from
\* a title typed between a form feed and U+00A0 and a description of white
\* space only: no other operation creates a row, and the add has cleared the
\* form.
AddCreatesOneRowWitness ==
    /\ todos = << TodoItem(1, <<"a", " ", "b">>, None, FALSE, FALSE) >>
    /\ new_title = <<>>
    /\ new_description = <<>>

----------------------------------------------------------------------------
(* C2 *)

\* C2: in every reachable state, add with a title that is empty after
\* trimming, and update(id, ..) with such a title, for any description and
\* any id, leave the store and the snapshot exactly as they were.
RejectedTitleIsNoOp ==
    \A in \in Inputs :
        is_empty(trim(in.title)) =>
            /\ LET after == add(Self, in.title, in.description)
               IN after.conn = conn /\ after.todos = todos
            /\ \A id \in Ids :
                LET after == update(Self, id, in.title, in.description)
                IN after.conn = conn /\ after.todos = todos

\* Both cases stand over a store that holds a task: the add form holds a
\* title of a space and U+3000, which an add refuses, and the edit buffers
\* hold the empty title and the description of an update that was refused.
RejectedTitleIsNoOpWitness ==
    /\ Len(todos) = 1
    /\ new_title = <<" ", "U+3000">>
    /\ new_description = <<>>
    /\ edit_title = <<>>
    /\ edit_description = <<"b">>

----------------------------------------------------------------------------
(* C3 *)

\* The table of the filters, row by row
Included(f, t) ==
    /\ f = "All" => t.deleted = FALSE
    /\ f = "Active" => (t.done = FALSE /\ t.deleted = FALSE)
    /\ f = "Completed" => (t.done = TRUE /\ t.deleted = FALSE)
    /\ f = "Deleted" => t.deleted = TRUE

\* C3: in every reachable state and for every filter value, the visible list
\* is exactly the rows of the snapshot that the filter's table entry
\* includes, each once; a soft-deleted task is never
\* visible under All, Active or Completed and always visible under Deleted.
VisibleIsFilterPredicate ==
    /\ \A f \in Filter :
        LET vis == Visible(f)
            want == {i \in DOMAIN todos : Included(f, todos[i])}
        IN /\ Rows(vis) = {todos[i] : i \in want}
           /\ Len(vis) = Cardinality(want)
    /\ filtered_todos(Self) = Visible(filter)
    /\ \A t \in Rows(todos) :
        t.deleted =>
            /\ t \notin Rows(Visible("All"))
            /\ t \notin Rows(Visible("Active"))
            /\ t \notin Rows(Visible("Completed"))
            /\ t \in Rows(Visible("Deleted"))

\* The Deleted filter is selected over a snapshot holding a soft-deleted task
\* and a completed one.
VisibleIsFilterPredicateWitness ==
    /\ filter = "Deleted"
    /\ Len(todos) = 2
    /\ todos[1].deleted /\ ~todos[1].done
    /\ ~todos[2].deleted /\ todos[2].done
    /\ Len(filtered_todos(Self)) = 1

----------------------------------------------------------------------------
(* C4 *)

VisibleIds(f) == IdsOf(Visible(f))

\* C4: in every reachable state the filters partition the snapshot by id:
\* All and Deleted are disjoint and together are the snapshot; Active and
\* Completed are disjoint and together are All.
FiltersPartition ==
    /\ VisibleIds("All") \cap VisibleIds("Deleted") = {}
    /\ VisibleIds("All") \cup VisibleIds("Deleted") = IdsOf(todos)
    /\ VisibleIds("Active") \cap VisibleIds("Completed") = {}
    /\ VisibleIds("Active") \cup VisibleIds("Completed") = VisibleIds("All")

\* Every part of the partition is inhabited or emptied by a real task: one
\* task is deleted and not done, the other completed and not deleted.
FiltersPartitionWitness ==
    /\ VisibleIds("Deleted") = {1}
    /\ VisibleIds("Completed") = {2}
    /\ VisibleIds("Active") = {}
    /\ \E t \in Rows(todos) : t.deleted /\ ~t.done

----------------------------------------------------------------------------
(* C5 *)

\* C5: in every reachable state and for every id of an existing task,
\* soft_delete(id) followed by restore(id) yields a store in which that task
\* has the title, description and done value it had before the soft_delete,
\* with deleted = false, and every other task is unchanged; the snapshot is
\* that store.
DeleteRestoreRoundTrip ==
    \A id \in Ids :
        HasId(todos, id) =>
            LET before == RowOf(conn.todos, id)
                after == restore_todo(delete_todo(Self, id), id)
                row == RowOf(after.conn.todos, id)
            IN /\ row.title = before.title
               /\ row.description = before.description
               /\ row.done = before.done
               /\ row.deleted = FALSE
               /\ row.id = id
               /\ OthersUnchanged(conn.todos, after.conn.todos, id)
               /\ Reloaded(after)

\* A completed task with a description, not deleted, stands next to a task
\* that soft_delete has marked: the round trip on the first must keep its
\* texts and done value and must leave the second one deleted.
DeleteRestoreRoundTripWitness ==
    /\ Len(todos) = 2
    /\ todos[1] = TodoItem(1, <<"b">>, Some(<<"a", " ", "b">>), TRUE, FALSE)
    /\ todos[2].deleted

----------------------------------------------------------------------------
(* C6 *)

\* C6: in every reachable state, restore(id) of a task that is not deleted
\* and soft_delete(id) of a task that is deleted leave the store and the
\* snapshot unchanged, and either operation applied twice gives the state
\* that applying it once gives.
DeleteRestoreIdempotent ==
    \A id \in Ids :
        /\ (HasId(todos, id) /\ ~RowOf(conn.todos, id).deleted) =>
                /\ restore_todo(Self, id).conn = conn
                /\ restore_todo(Self, id).todos = todos
        /\ (HasId(todos, id) /\ RowOf(conn.todos, id).deleted) =>
                /\ delete_todo(Self, id).conn = conn
                /\ delete_todo(Self, id).todos = todos
        /\ delete_todo(delete_todo(Self, id), id) = delete_todo(Self, id)
        /\ restore_todo(restore_todo(Self, id), id) = restore_todo(Self, id)

\* Both cases are present: the first task is soft-deleted (a second
\* soft_delete meets a deleted task), the second is not (a restore meets a
\* task that is not deleted).
DeleteRestoreIdempotentWitness ==
    /\ Len(todos) = 2
    /\ todos[1].deleted /\ todos[1].done
    /\ ~todos[2].deleted /\ ~todos[2].done

----------------------------------------------------------------------------
(* C7 *)

\* C7: in every reachable state, toggle_done(id, current_done) sets the done
\* flag of the row with that id to the negation of current_done, changes no
\* other field of that row and no other row, and changes nothing in the
\* store when no row has that id; the snapshot is reloaded from the store.
ToggleSetsNegation ==
    \A id \in Ids, current \in BOOLEAN :
        LET after == toggle_done(Self, id, current) IN
        /\ Reloaded(after)
        /\ HasId(conn.todos, id) =>
            /\ RowOf(after.conn.todos, id) =
                    [RowOf(conn.todos, id) EXCEPT !.done = ~current]
            /\ OthersUnchanged(conn.todos, after.conn.todos, id)
        /\ ~HasId(conn.todos, id) => after.conn = conn

\* The second of two tasks has been completed by a toggle; the first, which
\* is soft-deleted, has not.
ToggleSetsNegationWitness ==
    /\ Len(todos) = 2
    /\ todos[2].done /\ ~todos[2].deleted
    /\ ~todos[1].done /\ todos[1].deleted

----------------------------------------------------------------------------
(* C8 *)

\* The caller's value differs from the value the store holds for the row
Stale(id, current) ==
    HasId(conn.todos, id) /\ RowOf(conn.todos, id).done # current

\* C8 as stated: a toggle_done with a stale current_done inverts the row: its
\* stored done value after the call is the negation of the stored value
\* before the call.
StaleToggleInverts ==
    \A id \in Ids, current \in BOOLEAN :
        Stale(id, current) =>
            RowOf(toggle_done(Self, id, current).conn.todos, id).done
                = ~RowOf(conn.todos, id).done

\* C8 amended: a toggle_done with a stale current_done stores the negation of
\* the caller's value, which is the value the row already holds: the stored
\* done value, the row and the whole store are unchanged by the call.
StaleToggleKeepsStored ==
    \A id \in Ids, current \in BOOLEAN :
        Stale(id, current) =>
            LET after == toggle_done(Self, id, current) IN
            /\ RowOf(after.conn.todos, id).done = ~current
            /\ RowOf(after.conn.todos, id).done = RowOf(conn.todos, id).done
            /\ after.conn = conn
            /\ Reloaded(after)

\* The second task has been completed, so that a caller still holding
\* done = false for it is stale; the first is not completed, so that a caller
\* holding done = true for it is stale too.
StaleToggleKeepsStoredWitness ==
    /\ Len(todos) = 2
    /\ ~todos[1].done /\ todos[2].done
    /\ Stale(1, TRUE) /\ Stale(2, FALSE)

----------------------------------------------------------------------------
(* C9 *)

\* C9: in every reachable state, update(id, title, description) with a title
\* that is not empty after trimming sets the title of the row with that id to
\* the trimmed title and its description to the trimmed description (absent
\* when empty), and leaves its id, done and deleted, and every other row,
\* unchanged.
UpdateChangesOnlyText ==
    \A id \in Ids, in \in Inputs :
        ~is_empty(trim(in.title)) =>
            LET after == update(Self, id, in.title, in.description) IN
            /\ Reloaded(after)
            /\ OthersUnchanged(conn.todos, after.conn.todos, id)
            /\ HasId(conn.todos, id) =>
                LET before == RowOf(conn.todos, id)
                    row == RowOf(after.conn.todos, id)
                IN /\ row.title = trim(in.title)
                   /\ Trimmed(row.title)
                   /\ row.description = OrAbsent(trim(in.description))
                   /\ row.id = before.id
                   /\ row.done = before.done
                   /\ row.deleted = before.deleted

\* An update typed with white space around the title and a description of
\* white space only has been called, and a completed, soft-deleted task holds
\* the trimmed title and no description; the other task has other texts.
UpdateChangesOnlyTextWitness ==
    /\ Len(todos) = 2
    /\ todos[1] = TodoItem(1, <<"b">>, Some(<<"a", " ", "b">>), FALSE, FALSE)
    /\ todos[2] = TodoItem(2, <<"a", " ", "b">>, None, TRUE, TRUE)
    /\ edit_title = <<"\f", "a", " ", "b", " ">>
    /\ edit_description = <<"\t", "\r">>

----------------------------------------------------------------------------
(* C10 *)

\* C10: in every reachable state, soft_delete(id) and restore(id) change only
\* the deleted flag of the row with that id: its done value, title,
\* description and id, and every other row, are as before, so a completed
\* task that is soft-deleted is returned by the Deleted filter with done
\* still true.
DeleteRestoreOnlyDeletedFlag ==
    \A id \in Ids :
        LET del == delete_todo(Self, id)
            res == restore_todo(Self, id)
        IN /\ OthersUnchanged(conn.todos, del.conn.todos, id)
           /\ OthersUnchanged(conn.todos, res.conn.todos, id)
           /\ HasId(conn.todos, id) =>
                LET before == RowOf(conn.todos, id) IN
                /\ RowOf(del.conn.todos, id) = [before EXCEPT !.deleted = TRUE]
                /\ RowOf(res.conn.todos, id) = [before EXCEPT !.deleted = FALSE]
                /\ before.done =>
                    \E t \in Rows(filtered_todos([del EXCEPT !.filter = "Deleted"])) :
                        t.id = id /\ t.done

\* The scenario of the claim: a task completed and then soft-deleted is
\* absent from All and shown by the Deleted filter with done still true.
DeleteRestoreOnlyDeletedFlagWitness ==
    /\ Len(todos) = 1
    /\ todos[1].done /\ todos[1].deleted
    /\ filter = "Deleted"
    /\ filtered_todos(Self) = todos
    /\ Visible("All") = <<>>

----------------------------------------------------------------------------
(* C11 *)

\* C11: in every step of the store operations, no id present in the store is
\* lost, no row is removed, every existing row keeps its id, no two rows
\* share an id, and a row that was added has an id greater than every id
\* that was in the store before.
IdsUniqueAndStable ==
    [][ /\ IdsOf(conn.todos) \subseteq IdsOf(conn'.todos)
        /\ Len(conn'.todos) >= Len(conn.todos)
        /\ \A i \in DOMAIN conn.todos : conn'.todos[i].id = conn.todos[i].id
        /\ Cardinality(IdsOf(conn'.todos)) = Len(conn'.todos)
        /\ \A j \in DOMAIN conn'.todos :
                j \notin DOMAIN conn.todos =>
                    \A i \in DOMAIN conn.todos : conn'.todos[j].id > conn.todos[i].id
      ]_vars

\* Two tasks are stored, the first completed, renamed by an update and
\* soft-deleted: it is still in the store under the id it was given.
IdsUniqueAndStableWitness ==
    /\ Len(conn.todos) = 2
    /\ conn.todos[1] = TodoItem(1, <<"a", " ", "b">>, None, TRUE, TRUE)
    /\ conn.todos[2].id = 2
    /\ edit_title = <<"\f", "a", " ", "b", " ">>

----------------------------------------------------------------------------
(* C12 *)

\* C12: in every state reachable from the empty store, in the same run or
\* in a later one that finds the file, every persisted task has a title that
\* is not empty and has no white space at either end.
TitleNeverEmpty ==
    \A r \in Rows(conn.todos) : ~is_empty(r.title) /\ Trimmed(r.title)

\* Started without a file, a task was added from a title typed with white
\* space around it; a title of white space only stands in the add form, an
\* update with an empty title was attempted, and the task has its trimmed
\* title.
TitleNeverEmptyWitness ==
    /\ Len(conn.todos) = 1
    /\ conn.todos[1].title = <<"a", " ", "b">>
    /\ new_title = <<" ", "U+3000">>
    /\ edit_title = <<>> /\ edit_description = <<"b">>
    /\ filter = "All"

----------------------------------------------------------------------------
(* C13 *)

\* C13: in every reachable state, that is after every store operation has
\* returned, the rejected adds and updates included, the snapshot holds
\* exactly the rows of the store, with the same values.
SnapshotIsStore == Reloaded(Self) /\ Rows(todos) = Rows(conn.todos)

\* Operations have returned on a store of two tasks, a completed one and a
\* soft-deleted one: an update with the title "b" and, the add form being
\* empty next to an edit buffer that is not, an add or the start of the
\* program.
SnapshotIsStoreWitness ==
    /\ Len(conn.todos) = 2
    /\ conn.todos[1].done /\ ~conn.todos[1].deleted
    /\ conn.todos[2].deleted /\ ~conn.todos[2].done
    /\ conn.todos[2].title = <<"b">> /\ edit_title = <<"b">>
    /\ conn.todos[1].title = <<"a", " ", "b">>
    /\ new_title = <<>> /\ new_description = <<>>

----------------------------------------------------------------------------
(* C14 *)

\* The tasks drawn in the current frame
Shown == Rows(filtered_todos(Self))

\* C14: in every reachable state of the user interface, Save on the task
\* being edited leaves no edit target, whatever the buffers hold; the store
\* is the one update_todo leaves for the edit buffers; when the trimmed title
\* buffer is empty the store and the snapshot are unchanged.
SaveExitsEditMode ==
    \A todo \in Shown :
        is_edit_target(Self, todo) =>
            LET after == click_save(Self, todo) IN
            /\ after.edit_todo_id = None
            /\ after.conn = update(Self, todo.id, edit_title, edit_description).conn
            /\ Reloaded(after)
            /\ is_empty(trim(edit_title)) =>
                    (after.conn = conn /\ after.todos = todos)
            /\ ~is_empty(trim(edit_title)) =>
                    /\ RowOf(after.conn.todos, todo.id).title = trim(edit_title)
                    /\ RowOf(after.conn.todos, todo.id).description
                            = OrAbsent(trim(edit_description))

\* The first task is being edited and drawn, and its title buffer has been
\* blanked to a space and U+3000: Save is about to be refused the title.
SaveExitsEditModeWitness ==
    /\ edit_todo_id = Some(1)
    /\ \E todo \in Shown : is_edit_target(Self, todo)
    /\ edit_title = <<" ", "U+3000">>
    /\ todos[1].title = <<"b">>

----------------------------------------------------------------------------
(* C15 *)

\* C15: in every reachable state of the user interface, Cancel on the task
\* being edited leaves no edit target and leaves the store and the snapshot
\* as they are, whatever the edit buffers hold.
CancelWritesNothing ==
    \A todo \in Shown :
        is_edit_target(Self, todo) =>
            LET after == click_cancel(Self, todo) IN
            /\ after.edit_todo_id = None
            /\ after.conn = conn
            /\ after.todos = todos

\* An edit was cancelled: nothing is being edited, the buffers still hold a
\* title and a description as they were typed (a Save would have stored the
\* title, a new edit would have seeded the buffers with trimmed texts), and
\* no task has that title.
CancelWritesNothingWitness ==
    /\ edit_todo_id = None
    /\ edit_title = <<"b">>
    /\ edit_description = <<" ", "a", " ", "b", "\n">>
    /\ Len(todos) = 2
    /\ \A t \in Rows(conn.todos) : t.title # <<"b">>

----------------------------------------------------------------------------
(* C16 *)

\* C16: in every reachable state of the user interface at most one task is
\* the edit target; the edit button is drawn only for a task that is stored
\* as not deleted and is not the edit target; and a click on it makes that
\* task the edit target, seeds the buffers with its stored title and
\* description (empty when absent) and leaves store and snapshot as they
\* are, exactly as Cancel on the task edited before would.
EditSwitchesTarget ==
    /\ Cardinality({t \in Rows(todos) : is_edit_target(Self, t)}) <= 1
    /\ \A todo \in Shown :
        shows_edit_delete(Self, todo) =>
            LET after == click_edit(Self, todo)
                stored == RowOf(conn.todos, todo.id)
            IN /\ ~stored.deleted
               /\ edit_todo_id # Some(todo.id)
               /\ after.edit_todo_id = Some(todo.id)
               /\ Cardinality({t \in Rows(after.todos) : is_edit_target(after, t)}) = 1
               /\ after.edit_title = stored.title
               /\ after.edit_description =
                        (IF stored.description = None THEN <<>> ELSE stored.description[1])
               /\ after.conn = conn
               /\ after.todos = todos
               /\ \A a \in Shown :
                    is_edit_target(Self, a) =>
                        /\ after.conn = click_cancel(Self, a).conn
                        /\ after.todos = click_cancel(Self, a).todos

\* The first task is mid-edit with a typed title that is not its stored one,
\* and the second task is drawn with its edit button.
EditSwitchesTargetWitness ==
    /\ edit_todo_id = Some(1)
    /\ edit_title = <<"b">>
    /\ todos[1].title = <<"a", " ", "b">>
    /\ \E todo \in Shown : todo.id = 2 /\ shows_edit_delete(Self, todo)
    /\ \E todo \in Shown : todo.id = 1

----------------------------------------------------------------------------
(* C18 *)

\* C18: in every state reachable through the user's actions, an edit target
\* that is set is the id of a stored task whose deleted flag is false.
EditTargetNotDeleted ==
    edit_todo_id # None =>
        /\ HasId(conn.todos, edit_todo_id[1])
        /\ ~RowOf(conn.todos, edit_todo_id[1]).deleted

\* The second task is being edited while the first is soft-deleted and the
\* Deleted filter hides the task being edited.
EditTargetNotDeletedWitness ==
    /\ edit_todo_id = Some(2)
    /\ todos[1].deleted
    /\ filter = "Deleted"
    /\ todos[2].done

----------------------------------------------------------------------------
(* C19 *)

\* C19: in every step of the user interface, a task whose deleted flag is
\* true is left as it is or has only that flag cleared (restore): its id,
\* title, description and done value do not change while it is deleted.
DeletedTaskFrozen ==
    [][ \A i \in DOMAIN conn.todos :
            conn.todos[i].deleted =>
                \/ conn'.todos[i] = conn.todos[i]
                \/ conn'.todos[i] = [conn.todos[i] EXCEPT !.deleted = FALSE]
      ]_vars

\* A completed task is soft-deleted and drawn under the Deleted filter, with
\* its checkbox disabled, while the other task is being edited.
DeletedTaskFrozenWitness ==
    /\ filter = "Deleted"
    /\ Len(todos) = 2
    /\ todos[2].deleted /\ todos[2].done
    /\ todos[2] \in Shown
    /\ edit_todo_id = Some(1)

----------------------------------------------------------------------------
(* C20 *)

\* C20: in every reachable state of the user interface and for every task
\* drawn with a live checkbox, the done value the click passes is the stored
\* one, the click stores its negation, and a second click on the task as the
\* next frame holds it stores the original value again.
ClickInvertsStoredDone ==
    \A todo \in Shown :
        checkbox_enabled(todo) =>
            LET stored == RowOf(conn.todos, todo.id)
                once == click_checkbox(Self, todo)
                twice == click_checkbox(once, RowOf(once.todos, todo.id))
            IN /\ todo.done = stored.done
               /\ RowOf(once.conn.todos, todo.id) = [stored EXCEPT !.done = ~stored.done]
               /\ RowOf(twice.conn.todos, todo.id) = stored
               /\ twice.conn = conn

\* A task has been completed by a click and is drawn, checkbox live, under
\* the Completed filter next to a task that was not clicked.
ClickInvertsStoredDoneWitness ==
    /\ filter = "Completed"
    /\ Len(todos) = 2
    /\ todos[1].done /\ ~todos[1].deleted
    /\ ~todos[2].done
    /\ Shown = {todos[1]}

----------------------------------------------------------------------------
(* C17 *)

\* A storage failure in any method called now ends the process.
FailurePanics ==
    \A io \in IO \ {"Ok"} :
        /\ \A in \in Inputs :
            ~is_empty(trim(in.title)) =>
                /\ add_todo_io([Self EXCEPT !.new_title = in.title,
                                            !.new_description = in.description],
                               io).panicked
                /\ \A id \in Ids :
                    update_todo_io([Self EXCEPT !.edit_title = in.title,
                                                !.edit_description = in.description],
                                   id, io).panicked
        /\ \A id \in Ids :
            /\ delete_todo_io(Self, id, io).panicked
            /\ restore_todo_io(Self, id, io).panicked
            /\ \A current \in BOOLEAN : toggle_done_io(Self, id, current, io).panicked

\* C17: the process is running only if no storage call has failed: a running
\* process holds a snapshot equal to the store, a failure of the open, the
\* table creation, a query or a statement ends it at that call, and once it
\* has ended no further operation is applied.
StorageFailureIsFatal ==
    /\ [](~panicked => (Reloaded(Self) /\ FailurePanics))
    /\ [][panicked => UNCHANGED vars]_vars

\* The process ended in load_todos after an insert had been written: the
\* store holds two tasks and the snapshot of the dead process one.
StorageFailureIsFatalWitness ==
    /\ panicked
    /\ Len(conn.todos) = 2
    /\ Len(todos) = 1
    /\ conn.todos[1].done

====
